---- MODULE Spec2Model ----
(***************************************************************************)
(* fuzzyprojectfind (main.go): project discovery by a signal-aggregating   *)
(* depth-first walk, the tail-anchored fuzzy matcher, the filter/rank      *)
(* step, and the cache with its background rescan.                         *)
(*                                                                         *)
(* Strings are sequences of one-character strings, indexed from 1; the     *)
(* code's 0-based indices are kept in the matcher and shifted by one at    *)
(* every access.                                                           *)
(***************************************************************************)
EXTENDS Integers, Sequences, FiniteSets, TLC

VARIABLES
    fq,         \* fuzzyMatch: the query argument
    ft,         \* fuzzyMatch: the text argument
    fres,       \* fuzzyMatch: the returned <<isMatch, score>>
    fpc,        \* "ready" before the call, "done" after it
    pprojects,  \* filterProjects: the projects argument
    pquery,     \* filterProjects: the query argument
    pout,       \* filterProjects: the returned [result, matches]
    ppc,        \* "ready" before the call, "done" after it
    fs,         \* the file system: what each directory path holds
    baseDirs,   \* findProjects: the baseDirs argument
    baseIdx,    \* findProjects: the index (from 1) of the base being walked, 0 before
    stack,      \* walkFast: the stack, its top last
    projects,   \* findProjects: the projects found so far, in order
    seen,       \* findProjects: the set of recorded paths
    visitLog,   \* one record per popped directory, in order
    wpc,        \* "walk" while findProjects runs, "returned" after it
    cacheFile,        \* the cache file on disk
    loaded,           \* main: what loadCache returned at startup
    mainProjects,     \* main: the slice header of the variable projects
    assigned,         \* find: the words of that header the assignment has stored
    mpc,              \* main: where the main goroutine stands
    findpc,           \* find: where the call of find stands
    findBg,           \* find: TRUE when started with go
    searchQuery,      \* main: the typed query
    filteredProjects, \* main: the list on display
    selectedFolder,   \* main: the selection, <<>> for nil, else <<path>>
    output,           \* what the process printed
    filterArg,        \* the latest filterProjects call: <<[list, whole]>>, <<>> before
    firstShown,       \* the list of the first updateTable call, in <<...>>
    cacheWrites,      \* the number of completed writes of the cache file
    cfile,      \* saveCache, loadCache: the file at the path argument
    cprojects,  \* saveCache: the projects argument
    cnil,       \* saveCache: TRUE when that argument is the nil slice
    csave,      \* saveCache: TRUE when it returned an error
    cload,      \* loadCache: the returned [projects, err]
    cpc,        \* "save" before saveCache, "load" after it, "done" after loadCache
    dentries,   \* walkFast: the entries os.ReadDir returned for current, as listed
    dgo,        \* walkFast: goDeep after the loop over the entries, in <<...>>
    dpc         \* "ready" before the loop over the entries, "done" after the decision

fuzzyVars == <<fq, ft, fres, fpc>>
filterVars == <<pprojects, pquery, pout, ppc>>
walkVars == <<fs, baseDirs, baseIdx, stack, projects, seen, visitLog, wpc>>
mainVars ==
    <<cacheFile, loaded, mainProjects, assigned, mpc, findpc, findBg, searchQuery,
      filteredProjects, selectedFolder, output, filterArg, firstShown, cacheWrites>>
cacheVars == <<cfile, cprojects, cnil, csave, cload, cpc>>
descendVars == <<dentries, dgo, dpc>>
vars == <<fuzzyVars, filterVars, walkVars, mainVars, cacheVars, descendVars>>

(***************************************************************************)
(* Bounds of the model.                                                    *)
(***************************************************************************)
MaxQueryLen == 2
MaxTextLen == 5
MaxProjects == 3
MaxBases == 2
MaxSearchLen == 2
MaxEntries == 4

Alphabet == {"a", "b", "A"}

StrUpTo(n) == UNION {[1..k -> Alphabet] : k \in 0..n}

Min(a, b) == IF a <= b THEN a ELSE b

SetMax(S) == CHOOSE x \in S : \A y \in S : y <= x

(***************************************************************************)
(* strings.ToLower on the letters the model uses.                          *)
(***************************************************************************)
UpperToLower == [A |-> "a", B |-> "b", F |-> "f", O |-> "o"]

ToLowerChar(c) == IF c \in DOMAIN UpperToLower THEN UpperToLower[c] ELSE c

ToLower(s) == [i \in 1..Len(s) |-> ToLowerChar(s[i])]

(***************************************************************************)
(* fuzzyMatch, main.go:131-154.                                            *)
(***************************************************************************)
gapUncapped(lastIdx, tIdx) == lastIdx - tIdx

\* score += min(lastIdx-tIdx, 3)
gap(lastIdx, tIdx) == Min(lastIdx - tIdx, 3)

RECURSIVE fuzzyLoop(_, _, _, _, _, _)
\* the loop "for qIdx >= 0 && tIdx >= 0" and the two returns after it
fuzzyLoop(query, text, qIdx, tIdx, score, lastIdx) ==
    IF qIdx >= 0 /\ tIdx >= 0
    THEN IF query[qIdx + 1] = text[tIdx + 1]
         THEN fuzzyLoop(query, text, qIdx - 1, tIdx - 1,
                        IF lastIdx >= 0 THEN score + gap(lastIdx, tIdx) ELSE score,
                        tIdx)
         ELSE fuzzyLoop(query, text, qIdx, tIdx - 1, score, lastIdx)
    ELSE IF qIdx >= 0 THEN <<FALSE, 0>> ELSE <<TRUE, score>>

RECURSIVE headLoop(_, _, _, _, _, _)
\* the same scan run from the first character to the last
headLoop(query, text, qIdx, tIdx, score, lastIdx) ==
    IF qIdx < Len(query) /\ tIdx < Len(text)
    THEN IF query[qIdx + 1] = text[tIdx + 1]
         THEN headLoop(query, text, qIdx + 1, tIdx + 1,
                       IF lastIdx >= 0 THEN score + Min(tIdx - lastIdx, 3) ELSE score,
                       tIdx)
         ELSE headLoop(query, text, qIdx, tIdx + 1, score, lastIdx)
    ELSE IF qIdx < Len(query) THEN <<FALSE, 0>> ELSE <<TRUE, score>>

fuzzyMatchCaseSensitive(query, text) ==
    fuzzyLoop(query, text, Len(query) - 1, Len(text) - 1, 0, -1)

fuzzyMatchHeadFirst(query, text) ==
    headLoop(ToLower(query), ToLower(text), 0, 0, 0, -1)

fuzzyMatch(query, text) ==
    LET q == ToLower(query)
        t == ToLower(text)
    IN  fuzzyLoop(q, t, Len(q) - 1, Len(t) - 1, 0, -1)

(***************************************************************************)
(* filterProjects, main.go:161-194.                                        *)
(***************************************************************************)
RECURSIVE Split(_, _)
\* strings.Split(s, sep) for a one-character separator
Split(s, sep) ==
    LET at == {i \in 1..Len(s) : s[i] = sep}
    IN  IF at = {}
        THEN <<s>>
        ELSE LET i == CHOOSE x \in at : \A y \in at : x <= y
             IN  <<SubSeq(s, 1, i - 1)>> \o Split(SubSeq(s, i + 1, Len(s)), sep)

matchProjectLeafOnly(query, p) ==
    LET parts == Split(p, "/")
        n == Len(parts)
    IN  IF n > 0 THEN fuzzyMatch(query, parts[n]) ELSE <<FALSE, 0>>

\* the body of the loop over projects up to the label add: the <<match, score>> used
matchProject(query, p) ==
    LET parts == Split(p, "/")
        n == Len(parts)
        first == IF n > 0 THEN fuzzyMatch(query, parts[n]) ELSE <<FALSE, 0>>
    IN  IF n > 0 /\ first[1] /\ 1 = 2
        THEN first
        ELSE fuzzyMatch(query, p)

RECURSIVE collectMatches(_, _)
\* matches = append(matches, scored{project: p, score: score}) for each match of the list, in order
collectMatches(list, query) ==
    IF list = <<>>
    THEN <<>>
    ELSE LET m == matchProject(query, Head(list))
             rest == collectMatches(Tail(list), query)
         IN  IF m[1]
             THEN <<[project |-> Head(list), score |-> m[2]]>> \o rest
             ELSE rest

cmpScoreDescending(a, b) == b.score - a.score

\* the comparison handed to slices.SortFunc
cmpScore(a, b) == a.score - b.score

RECURSIVE sinkDown(_, _)
\* insertion sort's inner loop: for j := i; j > a && cmp(data[j], data[j-1]) < 0; j-- swap
sinkDown(data, j) ==
    IF j > 1 /\ cmpScore(data[j], data[j - 1]) < 0
    THEN sinkDown([data EXCEPT ![j] = data[j - 1], ![j - 1] = data[j]], j - 1)
    ELSE data

RECURSIVE sortFrom(_, _)
\* insertion sort's outer loop: for i := a + 1; i < b; i++
sortFrom(data, i) ==
    IF i > Len(data) THEN data ELSE sortFrom(sinkDown(data, i), i + 1)

\* slices.SortFunc(matches, cmp): insertion sort, which the library runs on short slices
SortFunc(data) == sortFrom(data, 2)

filterProjectsNoEarlyReturn(list, query) ==
    LET matches == SortFunc(collectMatches(list, query))
    IN  [result |-> [i \in 1..Len(matches) |-> matches[i].project],
         matches |-> matches]

filterProjects(list, query) ==
    IF query = <<>>
    THEN [result |-> list, matches |-> <<>>]
    ELSE LET matches == SortFunc(collectMatches(list, query))
         IN  [result |-> [i \in 1..Len(matches) |-> matches[i].project],
              matches |-> matches]

(***************************************************************************)
(* The file system.  A directory path is the string filepath.Join builds;  *)
(* Root stands for the base directory of main.  Each path of Dirs is       *)
(* absent, an unreadable directory, or a directory holding some of the     *)
(* special names next to its subdirectories a and b.  The insides of .git  *)
(* and node_modules are not part of the tree: reading them fails.          *)
(***************************************************************************)
\* filepath.Join(current, entry.Name())
Join(current, name) == current \o <<"/", name>>

Root == <<"/", "p">>
DirA == Join(Root, "a")
DirB == Join(Root, "b")
DirAA == Join(DirA, "a")

Dirs == {Root, DirA, DirB, DirAA}

Parent(d) == SubSeq(d, 1, Len(d) - 2)

SubdirNames == {"a", "b"}

\* the names whose entries are directories (entry.IsDir())
DirEntryNames == SubdirNames \cup {".git", "node_modules"}

\* the order in which os.ReadDir lists names: sorted by file name
NameOrder == <<".git", "a", "b", "go.mod", "go.work", "node_modules">>

EntrySets ==
    (SUBSET {".git", "go.work", "node_modules"})
        \cup {{"go.mod"}, {"go.mod", ".git"}}

DirStates ==
    {[kind |-> "absent", names |-> {}], [kind |-> "unreadable", names |-> {}]}
        \cup {[kind |-> "dir", names |-> n] : n \in EntrySets}

\* a directory that exists lies in a directory that exists
FileSystems ==
    {f \in [Dirs -> DirStates] :
        \A d \in Dirs \ {Root} :
            f[d].kind # "absent" => f[Parent(d)].kind # "absent"}

Readable(f, d) == d \in DOMAIN f /\ f[d].kind = "dir"

\* the names os.ReadDir finds in d
NamesIn(f, d) ==
    f[d].names \cup {n \in SubdirNames :
                        Join(d, n) \in DOMAIN f /\ f[Join(d, n)].kind # "absent"}

\* os.ReadDir(current) when it succeeds: the entries sorted by name
ReadDir(f, d) ==
    LET present == NamesIn(f, d)
        names == SelectSeq(NameOrder, LAMBDA n : n \in present)
    IN  [i \in 1..Len(names) |->
            [name |-> names[i], isDir |-> names[i] \in DirEntryNames]]

(***************************************************************************)
(* walkFast and findProjects, main.go:39-129.                              *)
(***************************************************************************)
ContinueAnyway == 0
Conitinue == 1
StopAnyway == 2
Stop == 3

projectMarkers ==
    {"pom.xml", "go.mod", "package.json", "Cargo.toml", "Makefile", ".git",
     "main.js", "index.js"}

skipDirs == {"node_modules"}

visitWithoutSeen(path, name, isDir, prj, sn) ==
    IF name \in skipDirs
    THEN [signal |-> StopAnyway, projects |-> prj, seen |-> sn]
    ELSE IF name \in projectMarkers
    THEN [signal |-> Stop, projects |-> Append(prj, path), seen |-> sn \cup {path}]
    ELSE IF name = "go.work"
    THEN [signal |-> ContinueAnyway, projects |-> prj, seen |-> sn]
    ELSE [signal |-> Conitinue, projects |-> prj, seen |-> sn]

\* the visitor findProjects hands to walkFast: the signal, and projects and seen after it
visit(path, name, isDir, prj, sn) ==
    IF name \in skipDirs
    THEN [signal |-> StopAnyway, projects |-> prj, seen |-> sn]
    ELSE IF name \in projectMarkers
    THEN [signal |-> Stop,
          projects |-> IF path \notin sn THEN Append(prj, path) ELSE prj,
          seen |-> sn \cup {path}]
    ELSE IF name = "go.work"
    THEN [signal |-> ContinueAnyway, projects |-> prj, seen |-> sn]
    ELSE [signal |-> Conitinue, projects |-> prj, seen |-> sn]

RECURSIVE visitEntriesLastWins(_, _, _)
visitEntriesLastWins(current, entries, acc) ==
    IF entries = <<>>
    THEN acc
    ELSE LET e == Head(entries)
             v == visit(current, e.name, e.isDir, acc.projects, acc.seen)
         IN  visitEntriesLastWins(current, Tail(entries),
                 [continueAnyway |-> v.signal = ContinueAnyway,
                  continue_ |-> v.signal = Conitinue,
                  stopAnyway |-> v.signal = StopAnyway,
                  stop_ |-> v.signal = Stop,
                  projects |-> v.projects,
                  seen |-> v.seen])

RECURSIVE visitEntries(_, _, _)
\* the loop over entries: the four flags, and projects and seen after every visit
visitEntries(current, entries, acc) ==
    IF entries = <<>>
    THEN acc
    ELSE LET e == Head(entries)
             v == visit(current, e.name, e.isDir, acc.projects, acc.seen)
         IN  visitEntries(current, Tail(entries),
                 [continueAnyway |-> acc.continueAnyway \/ v.signal = ContinueAnyway,
                  continue_ |-> acc.continue_ \/ v.signal = Conitinue,
                  stopAnyway |-> acc.stopAnyway \/ v.signal = StopAnyway,
                  stop_ |-> acc.stop_ \/ v.signal = Stop,
                  projects |-> v.projects,
                  seen |-> v.seen])

goDeepOverrideFirst(a) ==
    IF a.continueAnyway THEN TRUE
    ELSE IF a.stopAnyway THEN FALSE
    ELSE a.continue_ /\ ~a.stop_

goDeepIgnoringStop(a) ==
    IF a.stopAnyway THEN FALSE
    ELSE IF a.continueAnyway THEN TRUE
    ELSE a.continue_

goDeepIgnoringOverride(a) ==
    IF a.stopAnyway THEN FALSE ELSE a.continue_ /\ ~a.stop_

\* goDeep := continue_ && !stop_, then the stopAnyway and continueAnyway overrides
goDeep(a) ==
    IF a.stopAnyway THEN FALSE
    ELSE IF a.continueAnyway THEN TRUE
    ELSE a.continue_ /\ ~a.stop_

RECURSIVE pushDirsOrFiles(_, _, _, _)
pushDirsOrFiles(stk, current, entries, i) ==
    IF i < 1
    THEN stk
    ELSE pushDirsOrFiles(Append(stk, Join(current, entries[i].name)), current, entries, i - 1)

RECURSIVE pushDirsForward(_, _, _, _)
pushDirsForward(stk, current, entries, i) ==
    IF i < 1
    THEN stk
    ELSE LET below == pushDirsForward(stk, current, entries, i - 1)
         IN  IF entries[i].isDir
             THEN Append(below, Join(current, entries[i].name))
             ELSE below

RECURSIVE pushDirs(_, _, _, _)
\* for i := len(entries) - 1; i >= 0; i-- : push the directories among the entries
pushDirs(stk, current, entries, i) ==
    IF i < 1
    THEN stk
    ELSE pushDirs(IF entries[i].isDir THEN Append(stk, Join(current, entries[i].name)) ELSE stk,
                  current, entries, i - 1)

BaseChoices == {Root, DirA}

BaseLists == UNION {[1..k -> BaseChoices] : k \in 1..MaxBases}

\* for _, base := range baseDirs: walkFast(base, ...) starts with the base on the stack
WalkBase ==
    /\ wpc = "walk"
    /\ stack = <<>>
    /\ baseIdx < Len(baseDirs)
    /\ baseIdx' = baseIdx + 1
    /\ stack' = <<baseDirs[baseIdx + 1]>>
    /\ UNCHANGED <<fs, baseDirs, projects, seen, visitLog, wpc>>
    /\ UNCHANGED <<fuzzyVars, cacheVars, descendVars, filterVars, mainVars>>

\* one turn of the loop over the stack for a directory that can be read
WalkDir ==
    /\ wpc = "walk"
    /\ stack # <<>>
    /\ LET n == Len(stack)
           current == stack[n]
           popped == SubSeq(stack, 1, n - 1)
       IN  /\ Readable(fs, current)
           /\ LET entries == ReadDir(fs, current)
                  acc == visitEntries(current, entries,
                             [continueAnyway |-> FALSE, continue_ |-> FALSE,
                              stopAnyway |-> FALSE, stop_ |-> FALSE,
                              projects |-> projects, seen |-> seen])
              IN  /\ projects' = acc.projects
                  /\ seen' = acc.seen
                  /\ stack' = IF goDeep(acc)
                              THEN pushDirs(popped, current, entries, Len(entries))
                              ELSE popped
                  /\ visitLog' = Append(visitLog,
                                     [base |-> baseIdx, dir |-> current, read |-> TRUE,
                                      goDeep |-> goDeep(acc)])
    /\ UNCHANGED <<fs, baseDirs, baseIdx, wpc>>
    /\ UNCHANGED <<fuzzyVars, cacheVars, descendVars, filterVars, mainVars>>

WalkUnreadableReturns ==
    /\ wpc = "walk"
    /\ stack # <<>>
    /\ ~Readable(fs, stack[Len(stack)])
    /\ stack' = <<>>
    /\ visitLog' = Append(visitLog,
                       [base |-> baseIdx, dir |-> stack[Len(stack)], read |-> FALSE,
                        goDeep |-> FALSE])
    /\ UNCHANGED <<fs, baseDirs, baseIdx, projects, seen, wpc>>
    /\ UNCHANGED <<fuzzyVars, cacheVars, descendVars, filterVars, mainVars>>

\* one turn of the loop for a directory os.ReadDir fails on: continue
WalkUnreadable ==
    /\ wpc = "walk"
    /\ stack # <<>>
    /\ ~Readable(fs, stack[Len(stack)])
    /\ stack' = SubSeq(stack, 1, Len(stack) - 1)
    /\ visitLog' = Append(visitLog,
                       [base |-> baseIdx, dir |-> stack[Len(stack)], read |-> FALSE,
                        goDeep |-> FALSE])
    /\ UNCHANGED <<fs, baseDirs, baseIdx, projects, seen, wpc>>
    /\ UNCHANGED <<fuzzyVars, cacheVars, descendVars, filterVars, mainVars>>

\* return projects
FindReturn ==
    /\ wpc = "walk"
    /\ stack = <<>>
    /\ baseIdx = Len(baseDirs)
    /\ wpc' = "returned"
    /\ UNCHANGED <<fs, baseDirs, baseIdx, stack, projects, seen, visitLog>>
    /\ UNCHANGED <<fuzzyVars, cacheVars, descendVars, filterVars, mainVars>>

FindNext ==
    \/ WalkBase
    \/ WalkDir
    \/ WalkUnreadable
    \/ FindReturn

WalkOff ==
    /\ fs = [d \in Dirs |-> [kind |-> "absent", names |-> {}]]
    /\ baseDirs = <<>>
    /\ baseIdx = 0
    /\ stack = <<>>
    /\ projects = <<>>
    /\ seen = {}
    /\ visitLog = <<>>
    /\ wpc = "off"

FuzzyOff ==
    /\ fq = <<>>
    /\ ft = <<>>
    /\ fres = <<>>
    /\ fpc = "off"

FilterOff ==
    /\ pprojects = <<>>
    /\ pquery = <<>>
    /\ pout = [result |-> <<>>, matches |-> <<>>]
    /\ ppc = "off"

MainOff ==
    /\ cacheFile = [kind |-> "missing", data |-> <<>>]
    /\ loaded = <<>>
    /\ mainProjects = [ptr |-> "nil", len |-> 0]
    /\ assigned = {}
    /\ mpc = "off"
    /\ findpc = "off"
    /\ findBg = FALSE
    /\ searchQuery = <<>>
    /\ filteredProjects = <<>>
    /\ selectedFolder = <<>>
    /\ output = "none"
    /\ filterArg = <<>>
    /\ firstShown = <<>>
    /\ cacheWrites = 0

CacheOff ==
    /\ cfile = [kind |-> "missing", data |-> <<>>]
    /\ cprojects = <<>>
    /\ cnil = TRUE
    /\ csave = FALSE
    /\ cload = [projects |-> <<>>, err |-> FALSE]
    /\ cpc = "off"

DescendOff ==
    /\ dentries = <<>>
    /\ dgo = <<>>
    /\ dpc = "off"

\* findProjects called on base directories drawn from the tree, on any file system
FindInit ==
    /\ fs \in FileSystems
    /\ baseDirs \in BaseLists
    /\ baseIdx = 0
    /\ stack = <<>>
    /\ projects = <<>>
    /\ seen = {}
    /\ visitLog = <<>>
    /\ wpc = "walk"
    /\ FuzzyOff
    /\ FilterOff
    /\ MainOff
    /\ CacheOff
    /\ DescendOff

SpecFind == FindInit /\ [][FindNext]_vars

(***************************************************************************)
(* The cache document, main.go:203-227: json.MarshalIndent and             *)
(* json.Unmarshal on the struct Cache, byte by byte.  A Go string is a     *)
(* sequence of bytes: InvalidByte stands for a byte that belongs to no     *)
(* UTF-8 encoding (a file name may hold one), Replacement for the rune     *)
(* U+FFFD.  The file at a path is [kind, data]: kind "nodir" when the      *)
(* directory of the path does not exist, "missing" when only the file      *)
(* does not, "file" when it exists and holds the bytes data.               *)
(***************************************************************************)
InvalidByte == "xFF"
Replacement == "uFFFD"
Quote == "\""
Backslash == "\\"

\* encoding/json: how a character of a string is written
escape(c) ==
    IF c = Quote THEN <<Backslash, Quote>>
    ELSE IF c = Backslash THEN <<Backslash, Backslash>>
    ELSE IF c = "<" THEN <<Backslash, "u", "0", "0", "3", "c">>
    ELSE IF c = InvalidByte THEN <<Backslash, "u", "f", "f", "f", "d">>
    ELSE <<c>>

RECURSIVE encodeChars(_)
encodeChars(str) ==
    IF str = <<>> THEN <<>> ELSE escape(Head(str)) \o encodeChars(Tail(str))

encodeString(str) == <<Quote>> \o encodeChars(str) \o <<Quote>>

\* the indentation MarshalIndent(c, "", "  ") puts at a depth
indent(depth) == [i \in 1..(2 * depth) |-> " "]

RECURSIVE encodeElems(_)
\* the elements of an array, one on a line, a comma after all but the last
encodeElems(list) ==
    IF list = <<>>
    THEN <<>>
    ELSE <<"\n">> \o indent(2) \o encodeString(Head(list))
             \o (IF Len(list) > 1 THEN <<",">> ELSE <<>>)
             \o encodeElems(Tail(list))

\* a []string: null for the nil slice, [] for an empty one
encodeSlice(list, isNil) ==
    IF isNil THEN <<"n", "u", "l", "l">>
    ELSE IF list = <<>> THEN <<"[", "]">>
    ELSE <<"[">> \o encodeElems(list) \o <<"\n">> \o indent(1) \o <<"]">>

\* the field name of Cache.Projects: `json:"projects"`
KeyProjects == <<"p", "r", "o", "j", "e", "c", "t", "s">>

\* json.MarshalIndent(Cache{Projects: projects}, "", "  ")
MarshalIndent(list, isNil) ==
    <<"{", "\n">> \o indent(1) \o encodeString(KeyProjects) \o <<":", " ">>
        \o encodeSlice(list, isNil) \o <<"\n", "}">>

IsSpace(c) == c \in {" ", "\n", "\t", "\r"}

RECURSIVE skipSpace(_, _)
skipSpace(d, i) == IF i <= Len(d) /\ IsSpace(d[i]) THEN skipSpace(d, i + 1) ELSE i

\* the bytes lit stand in d at position i
Has(d, i, lit) == i + Len(lit) - 1 <= Len(d) /\ SubSeq(d, i, i + Len(lit) - 1) = lit

\* a syntax error at position i
decodeFail(i) == [ok |-> FALSE, val |-> <<>>, next |-> i]

RECURSIVE decodeChars(_, _, _)
\* the characters of a string literal from position i on, up to its closing quote
decodeChars(d, i, acc) ==
    IF i > Len(d) THEN decodeFail(i)
    ELSE IF d[i] = Quote THEN [ok |-> TRUE, val |-> acc, next |-> i + 1]
    ELSE IF d[i] = Backslash
    THEN IF Has(d, i + 1, <<Quote>>) THEN decodeChars(d, i + 2, Append(acc, Quote))
         ELSE IF Has(d, i + 1, <<Backslash>>)
         THEN decodeChars(d, i + 2, Append(acc, Backslash))
         ELSE IF Has(d, i + 1, <<"u", "0", "0", "3", "c">>)
         THEN decodeChars(d, i + 6, Append(acc, "<"))
         ELSE IF Has(d, i + 1, <<"u", "f", "f", "f", "d">>)
         THEN decodeChars(d, i + 6, Append(acc, Replacement))
         ELSE decodeFail(i)
    ELSE IF d[i] \in {"\n", "\t", "\r"} THEN decodeFail(i)
    ELSE IF d[i] = InvalidByte THEN decodeChars(d, i + 1, Append(acc, Replacement))
    ELSE decodeChars(d, i + 1, Append(acc, d[i]))

decodeString(d, i) ==
    IF Has(d, i, <<Quote>>) THEN decodeChars(d, i + 1, <<>>) ELSE decodeFail(i)

RECURSIVE decodeElems(_, _, _)
\* the elements of an array from position i on, up to its closing bracket
decodeElems(d, i, acc) ==
    LET str == decodeString(d, skipSpace(d, i))
        j == skipSpace(d, str.next)
    IN  IF ~str.ok THEN decodeFail(i)
        ELSE IF Has(d, j, <<",">>) THEN decodeElems(d, j + 1, Append(acc, str.val))
        ELSE IF Has(d, j, <<"]">>)
        THEN [ok |-> TRUE, val |-> Append(acc, str.val), next |-> j + 1]
        ELSE decodeFail(j)

\* a value decoded into a []string: null, or an array of strings
decodeSlice(d, i) ==
    IF Has(d, i, <<"n", "u", "l", "l">>)
    THEN [ok |-> TRUE, val |-> <<>>, next |-> i + 4]
    ELSE IF Has(d, i, <<"[">>)
    THEN IF Has(d, skipSpace(d, i + 1), <<"]">>)
         THEN [ok |-> TRUE, val |-> <<>>, next |-> skipSpace(d, i + 1) + 1]
         ELSE decodeElems(d, i + 1, <<>>)
    ELSE decodeFail(i)

\* json.Unmarshal(data, &c) and c.Projects: an object with no member or with the
\* member projects (the name matched without regard to case); documents of another
\* shape are not among the files considered and count as errors
Unmarshal(d) ==
    LET open == skipSpace(d, 1)
        first == skipSpace(d, open + 1)
        key == decodeString(d, first)
        colon == skipSpace(d, key.next)
        v == decodeSlice(d, skipSpace(d, colon + 1))
        close == skipSpace(d, v.next)
    IN  IF ~Has(d, open, <<"{">>) THEN decodeFail(open)
        ELSE IF Has(d, first, <<"}">>)
        THEN IF skipSpace(d, first + 1) > Len(d)
             THEN [ok |-> TRUE, val |-> <<>>, next |-> Len(d) + 1]
             ELSE decodeFail(first + 1)
        ELSE IF ~key.ok \/ ~Has(d, colon, <<":">>) \/ ToLower(key.val) # KeyProjects
        THEN decodeFail(first)
        ELSE IF v.ok /\ Has(d, close, <<"}">>) /\ skipSpace(d, close + 1) > Len(d)
        THEN [ok |-> TRUE, val |-> v.val, next |-> Len(d) + 1]
        ELSE decodeFail(close)

(***************************************************************************)
(* main, loadCache and saveCache, main.go:200-326.  The closure find       *)
(* assigns the variable projects of main and then saves the cache; it      *)
(* runs inline when the loaded list is empty and as a goroutine            *)
(* otherwise.  Nothing orders the goroutine's assignment with the reads    *)
(* of main: the slice header is stored word by word (ptr, len), and a      *)
(* read takes the words as they are.                                       *)
(***************************************************************************)
\* loadCache(path): the list and the error it returns
loadCache(file) ==
    IF file.kind # "file"
    THEN [projects |-> <<>>, err |-> TRUE]
    ELSE LET c == Unmarshal(file.data)
         IN  IF c.ok
             THEN [projects |-> c.val, err |-> FALSE]
             ELSE [projects |-> <<>>, err |-> TRUE]

\* saveCache(path, projects): the file at path after the call, and the error it returns
saveCache(file, list, isNil) ==
    IF file.kind = "nodir"
    THEN [file |-> file, err |-> TRUE]
    ELSE [file |-> [kind |-> "file", data |-> MarshalIndent(list, isNil)], err |-> FALSE]

\* the header a slice value has: a nil pointer for the nil slice
sliceHeader(array, list) ==
    [ptr |-> IF list = <<>> THEN "nil" ELSE array, len |-> Len(list)]

\* the array a header word points to
arrayOf(ptr) ==
    IF ptr = "cache" THEN loaded ELSE IF ptr = "scan" THEN projects ELSE <<>>

\* what lies in memory past the end of an array
Junk == <<"?">>

\* the header's length exceeds its array: a read runs past the array
Torn == mainProjects.len > Len(arrayOf(mainProjects.ptr))

\* the list a read of main's variable projects yields
projectsRead ==
    LET arr == arrayOf(mainProjects.ptr)
    IN  [i \in 1..mainProjects.len |-> IF i <= Len(arr) THEN arr[i] ELSE Junk]

Runes == {"a", "b"}

CachedLists == {<<>>, <<DirA>>, <<Root, DirB>>}

\* a file that is no JSON document
Garbage == <<"x">>

CacheInits ==
    {[kind |-> k, data |-> <<>>] : k \in {"nodir", "missing"}}
        \cup {[kind |-> "file", data |-> Garbage]}
        \cup {[kind |-> "file", data |-> MarshalIndent(l, l = <<>>)] : l \in CachedLists}

MainEntrySets == {{}, {".git"}, {".git", "go.work"}}

MainFileSystems ==
    {f \in FileSystems :
        /\ f[DirB].kind = "absent"
        /\ f[DirAA].kind = "absent"
        /\ f[Root].names \in MainEntrySets
        /\ f[DirA].names \in MainEntrySets}

MainInit ==
    /\ cacheFile \in CacheInits
    /\ fs \in MainFileSystems
    /\ loaded = <<>>
    /\ mainProjects = [ptr |-> "nil", len |-> 0]
    /\ assigned = {}
    /\ mpc = "load"
    /\ findpc = "idle"
    /\ findBg = FALSE
    /\ searchQuery = <<>>
    /\ filteredProjects = <<>>
    /\ selectedFolder = <<>>
    /\ output = "none"
    /\ filterArg = <<>>
    /\ firstShown = <<>>
    /\ cacheWrites = 0
    /\ baseDirs = <<>>
    /\ baseIdx = 0
    /\ stack = <<>>
    /\ projects = <<>>
    /\ seen = {}
    /\ visitLog = <<>>
    /\ wpc = "off"
    /\ FuzzyOff
    /\ FilterOff
    /\ CacheOff
    /\ DescendOff

\* projects, _ := loadCache(CacheFile)
MainLoad ==
    /\ mpc = "load"
    /\ loaded' = loadCache(cacheFile).projects
    /\ mainProjects' = sliceHeader("cache", loadCache(cacheFile).projects)
    /\ mpc' = "decide"
    /\ UNCHANGED <<cacheFile, assigned, findpc, findBg, searchQuery, filteredProjects,
                   selectedFolder, output, filterArg, firstShown, cacheWrites>>
    /\ UNCHANGED <<fuzzyVars, cacheVars, descendVars, filterVars, walkVars>>

MainStartFindNeverWaits ==
    /\ mpc = "decide"
    /\ findBg' = (mainProjects.len # 0)
    /\ mpc' = "check"
    /\ findpc' = "scan"
    /\ baseDirs' = <<Root>>
    /\ baseIdx' = 0
    /\ stack' = <<>>
    /\ projects' = <<>>
    /\ seen' = {}
    /\ visitLog' = <<>>
    /\ wpc' = "walk"
    /\ UNCHANGED <<fs, cacheFile, loaded, mainProjects, assigned, searchQuery,
                   filteredProjects, selectedFolder, output, filterArg, firstShown,
                   cacheWrites>>
    /\ UNCHANGED <<fuzzyVars, cacheVars, descendVars, filterVars>>

\* if len(projects) == 0 { find() } else { go find() }: find starts findProjects(baseDirs)
MainStartFind ==
    /\ mpc = "decide"
    /\ findBg' = (mainProjects.len # 0)
    /\ mpc' = IF mainProjects.len = 0 THEN "wait" ELSE "check"
    /\ findpc' = "scan"
    /\ baseDirs' = <<Root>>
    /\ baseIdx' = 0
    /\ stack' = <<>>
    /\ projects' = <<>>
    /\ seen' = {}
    /\ visitLog' = <<>>
    /\ wpc' = "walk"
    /\ UNCHANGED <<fs, cacheFile, loaded, mainProjects, assigned, searchQuery,
                   filteredProjects, selectedFolder, output, filterArg, firstShown,
                   cacheWrites>>
    /\ UNCHANGED <<fuzzyVars, cacheVars, descendVars, filterVars>>

\* projects = findProjects(baseDirs): one word of the slice header is stored
FindAssign ==
    /\ findpc = "scan"
    /\ wpc = "returned"
    /\ \E w \in {"ptr", "len"} \ assigned :
           /\ mainProjects' = [mainProjects EXCEPT ![w] = sliceHeader("scan", projects)[w]]
           /\ assigned' = assigned \cup {w}
           /\ findpc' = IF assigned \cup {w} = {"ptr", "len"} THEN "save" ELSE "scan"
    /\ UNCHANGED <<cacheFile, loaded, mpc, findBg, searchQuery, filteredProjects,
                   selectedFolder, output, filterArg, firstShown, cacheWrites>>
    /\ UNCHANGED <<fuzzyVars, cacheVars, descendVars, filterVars, walkVars>>

\* saveCache: os.WriteFile cannot create the file (the directory is missing)
SaveFail ==
    /\ findpc = "save"
    /\ cacheFile.kind = "nodir"
    /\ findpc' = "done"
    /\ UNCHANGED <<cacheFile, loaded, mainProjects, assigned, mpc, findBg, searchQuery,
                   filteredProjects, selectedFolder, output, filterArg, firstShown,
                   cacheWrites>>
    /\ UNCHANGED <<fuzzyVars, cacheVars, descendVars, filterVars, walkVars>>

\* saveCache: os.WriteFile opens the file, truncating it
SaveOpen ==
    /\ findpc = "save"
    /\ cacheFile.kind # "nodir"
    /\ cacheFile' = [kind |-> "file", data |-> <<>>]
    /\ findpc' = "write"
    /\ UNCHANGED <<loaded, mainProjects, assigned, mpc, findBg, searchQuery,
                   filteredProjects, selectedFolder, output, filterArg, firstShown,
                   cacheWrites>>
    /\ UNCHANGED <<fuzzyVars, cacheVars, descendVars, filterVars, walkVars>>

\* saveCache: os.WriteFile writes the document
SaveWrite ==
    /\ findpc = "write"
    /\ cacheFile' = saveCache(cacheFile, projects, projects = <<>>).file
    /\ cacheWrites' = cacheWrites + 1
    /\ findpc' = "done"
    /\ UNCHANGED <<loaded, mainProjects, assigned, mpc, findBg, searchQuery,
                   filteredProjects, selectedFolder, output, filterArg, firstShown>>
    /\ UNCHANGED <<fuzzyVars, cacheVars, descendVars, filterVars, walkVars>>

\* the inline call find() returns
MainResume ==
    /\ mpc = "wait"
    /\ findpc = "done"
    /\ mpc' = "check"
    /\ UNCHANGED <<cacheFile, loaded, mainProjects, assigned, findpc, findBg, searchQuery,
                   filteredProjects, selectedFolder, output, filterArg, firstShown,
                   cacheWrites>>
    /\ UNCHANGED <<fuzzyVars, cacheVars, descendVars, filterVars, walkVars>>

\* the process ends: a goroutine still running is abandoned where it stands
Exit(out, pc) ==
    /\ output' = out
    /\ mpc' = pc
    /\ findpc' = IF findpc \in {"scan", "save", "write"} THEN "killed" ELSE findpc
    /\ wpc' = IF wpc = "walk" THEN "killed" ELSE wpc

\* if len(projects) == 0 { fmt.Println("No projects found."); os.Exit(0) }
MainNoProjects ==
    /\ mpc = "check"
    /\ mainProjects.len = 0
    /\ Exit("No projects found.", "exited")
    /\ UNCHANGED <<cacheFile, loaded, mainProjects, assigned, findBg, searchQuery,
                   filteredProjects, selectedFolder, filterArg, firstShown, cacheWrites>>
    /\ UNCHANGED <<fs, baseDirs, baseIdx, stack, projects, seen, visitLog>>
    /\ UNCHANGED <<fuzzyVars, cacheVars, descendVars, filterVars>>

\* len(projects) is not 0: the application, the table and the label are built
MainBuildUI ==
    /\ mpc = "check"
    /\ mainProjects.len # 0
    /\ mpc' = "ui"
    /\ UNCHANGED <<cacheFile, loaded, mainProjects, assigned, findpc, findBg, searchQuery,
                   filteredProjects, selectedFolder, output, filterArg, firstShown,
                   cacheWrites>>
    /\ UNCHANGED <<fuzzyVars, cacheVars, descendVars, filterVars, walkVars>>

\* a read of main's variable projects that does not fault: a nil pointer with a
\* length above 0 always faults
CanRead == ~(mainProjects.ptr = "nil" /\ mainProjects.len > 0)

\* the read finds the header whole: no assignment to it is half done
WholeHeader == assigned \in {{}, {"ptr", "len"}}

\* updateTable(query): filterProjects on what main's variable projects reads as
updateTable(query) ==
    /\ CanRead
    /\ filterArg' = <<[list |-> projectsRead, whole |-> WholeHeader]>>
    /\ filteredProjects' = filterProjects(projectsRead, query).result
    /\ firstShown' = IF firstShown = <<>>
                     THEN <<filterProjects(projectsRead, query).result>>
                     ELSE firstShown

\* updateTable(""), the first display, and the application starts running
MainFirstUpdate ==
    /\ mpc = "ui"
    /\ updateTable(<<>>)
    /\ mpc' = "session"
    /\ UNCHANGED <<cacheFile, loaded, mainProjects, assigned, findpc, findBg, searchQuery,
                   selectedFolder, output, cacheWrites>>
    /\ UNCHANGED <<fuzzyVars, cacheVars, descendVars, filterVars, walkVars>>

\* a key whose rune passes the filter: appended to the query, the table updated
KeyRune ==
    /\ mpc = "session"
    /\ Len(searchQuery) < MaxSearchLen
    /\ \E c \in Runes :
           /\ searchQuery' = Append(searchQuery, c)
           /\ updateTable(Append(searchQuery, c))
    /\ UNCHANGED <<cacheFile, loaded, mainProjects, assigned, mpc, findpc, findBg,
                   selectedFolder, output, cacheWrites>>
    /\ UNCHANGED <<fuzzyVars, cacheVars, descendVars, filterVars, walkVars>>

\* backspace or delete: the last rune dropped if there is one, the table updated
KeyBackspace ==
    /\ mpc = "session"
    /\ LET q == IF Len(searchQuery) > 0
                THEN SubSeq(searchQuery, 1, Len(searchQuery) - 1)
                ELSE searchQuery
       IN  /\ searchQuery' = q
           /\ updateTable(q)
    /\ UNCHANGED <<cacheFile, loaded, mainProjects, assigned, mpc, findpc, findBg,
                   selectedFolder, output, cacheWrites>>
    /\ UNCHANGED <<fuzzyVars, cacheVars, descendVars, filterVars, walkVars>>

\* any other key but enter, up and down: the table updated with the query as it is
KeyOther ==
    /\ mpc = "session"
    /\ updateTable(searchQuery)
    /\ UNCHANGED <<cacheFile, loaded, mainProjects, assigned, mpc, findpc, findBg,
                   searchQuery, selectedFolder, output, cacheWrites>>
    /\ UNCHANGED <<fuzzyVars, cacheVars, descendVars, filterVars, walkVars>>

\* a read past the array faults instead of yielding what lies there
ReadFault ==
    /\ mpc \in {"ui", "session"}
    /\ Torn
    /\ Exit("fault", "crashed")
    /\ UNCHANGED <<cacheFile, loaded, mainProjects, assigned, findBg, searchQuery,
                   filteredProjects, selectedFolder, filterArg, firstShown, cacheWrites>>
    /\ UNCHANGED <<fs, baseDirs, baseIdx, stack, projects, seen, visitLog>>
    /\ UNCHANGED <<fuzzyVars, cacheVars, descendVars, filterVars>>

\* enter on a row of the table: selectedFolder = &filteredProjects[row]; app.Stop()
KeyEnter ==
    /\ mpc = "session"
    /\ \E row \in 1..Len(filteredProjects) :
           selectedFolder' = <<filteredProjects[row]>>
    /\ mpc' = "stopped"
    /\ UNCHANGED <<cacheFile, loaded, mainProjects, assigned, findpc, findBg, searchQuery,
                   filteredProjects, output, filterArg, firstShown, cacheWrites>>
    /\ UNCHANGED <<fuzzyVars, cacheVars, descendVars, filterVars, walkVars>>

\* the user leaves the application without selecting
KeyAbort ==
    /\ mpc = "session"
    /\ mpc' = "stopped"
    /\ UNCHANGED <<cacheFile, loaded, mainProjects, assigned, findpc, findBg, searchQuery,
                   filteredProjects, selectedFolder, output, filterArg, firstShown,
                   cacheWrites>>
    /\ UNCHANGED <<fuzzyVars, cacheVars, descendVars, filterVars, walkVars>>

\* the selection or "No Selection" is printed and main returns
MainPrint ==
    /\ mpc = "stopped"
    /\ Exit(IF selectedFolder # <<>> THEN "selection" ELSE "No Selection", "exited")
    /\ UNCHANGED <<cacheFile, loaded, mainProjects, assigned, findBg, searchQuery,
                   filteredProjects, selectedFolder, filterArg, firstShown, cacheWrites>>
    /\ UNCHANGED <<fs, baseDirs, baseIdx, stack, projects, seen, visitLog>>
    /\ UNCHANGED <<fuzzyVars, cacheVars, descendVars, filterVars>>

MainNext ==
    \/ MainLoad
    \/ MainStartFind
    \/ WalkBase
    \/ WalkDir
    \/ WalkUnreadable
    \/ FindReturn
    \/ FindAssign
    \/ SaveFail
    \/ SaveOpen
    \/ SaveWrite
    \/ MainResume
    \/ MainNoProjects
    \/ MainBuildUI
    \/ MainFirstUpdate
    \/ KeyRune
    \/ KeyBackspace
    \/ KeyOther
    \/ ReadFault
    \/ KeyEnter
    \/ KeyAbort
    \/ MainPrint

SpecMain == MainInit /\ [][MainNext]_vars

\* the steps of find, inline or as a goroutine
FindStep ==
    \/ WalkBase
    \/ WalkDir
    \/ WalkUnreadable
    \/ FindReturn
    \/ FindAssign
    \/ SaveFail
    \/ SaveOpen
    \/ SaveWrite

\* the scheduler runs a goroutine that can run: while the process lives find goes on
SpecMainFair == MainInit /\ [][MainNext]_vars /\ WF_vars(FindStep)

(***************************************************************************)
(* Inputs of the matcher and of the filter.                                *)
(***************************************************************************)
library == <<"l", "i", "b", "r", "a", "r", "y">>
queryBr == <<"b", "r">>
queryXq == <<"x", "q">>

pathFoo == <<"/", "a", "/", "f", "o", "o">>
pathBar == <<"/", "a", "/", "b", "a", "r">>
pathFoobar == <<"/", "a", "/", "f", "o", "o", "b", "a", "r">>
pathFoSlashO == <<"/", "f", "o", "/", "o">>
pathAFob == <<"/", "a", "/", "F", "o", "b">>
pathOfOof == <<"/", "o", "f", "/", "o", "o", "f">>
pathOfSlash == <<"/", "o", "f", "/">>

PathPool == {pathFoo, pathBar, pathFoobar, pathFoSlashO, pathAFob, pathOfOof, pathOfSlash}

QueryPool == {<<>>, <<"f", "o", "o">>, <<"f", "o">>, <<"a">>, <<"O", "b">>, <<"o", "f">>}

SeqUpTo(S, n) == UNION {[1..k -> S] : k \in 0..n}

(***************************************************************************)
(* The matcher called once on inputs drawn from the bounded sets.          *)
(***************************************************************************)
FuzzyInit ==
    /\ \E in \in (StrUpTo(MaxQueryLen) \X StrUpTo(MaxTextLen))
                      \cup {<<queryBr, library>>, <<queryXq, library>>} :
           /\ fq = in[1]
           /\ ft = in[2]
    /\ fres = <<>>
    /\ fpc = "ready"
    /\ FilterOff
    /\ WalkOff
    /\ MainOff
    /\ CacheOff
    /\ DescendOff

FuzzyCall ==
    /\ fpc = "ready"
    /\ fres' = fuzzyMatch(fq, ft)
    /\ fpc' = "done"
    /\ UNCHANGED <<fq, ft, filterVars, cacheVars, descendVars, walkVars, mainVars>>

FuzzyNext == FuzzyCall

SpecFuzzy == FuzzyInit /\ [][FuzzyNext]_vars

(***************************************************************************)
(* The filter called once on inputs drawn from the pools.                  *)
(***************************************************************************)
FilterInit ==
    /\ pprojects \in SeqUpTo(PathPool, MaxProjects)
    /\ pquery \in QueryPool
    /\ pout = [result |-> <<>>, matches |-> <<>>]
    /\ ppc = "ready"
    /\ FuzzyOff
    /\ WalkOff
    /\ MainOff
    /\ CacheOff
    /\ DescendOff

FilterCall ==
    /\ ppc = "ready"
    /\ pout' = filterProjects(pprojects, pquery)
    /\ ppc' = "done"
    /\ UNCHANGED <<pprojects, pquery, fuzzyVars, cacheVars, descendVars, walkVars, mainVars>>

FilterNext == FilterCall

SpecFilter == FilterInit /\ [][FilterNext]_vars

(***************************************************************************)
(* saveCache followed by loadCache on the same path, on lists drawn from   *)
(* a pool of path strings and on any state of the file before.             *)
(***************************************************************************)
CachePaths ==
    {<<>>, Root, DirA, <<"/", "A">>, <<"/", " ", ",">>, <<"]", Quote>>,
     <<"/", Backslash, "n">>, <<"<">>, <<"/", Replacement>>, <<"/", InvalidByte>>}

CacheInit ==
    /\ cfile \in CacheInits
    /\ cprojects \in SeqUpTo(CachePaths, MaxProjects)
    /\ cnil \in {b \in BOOLEAN : b => cprojects = <<>>}
    /\ csave = FALSE
    /\ cload = [projects |-> <<>>, err |-> FALSE]
    /\ cpc = "save"
    /\ FuzzyOff
    /\ FilterOff
    /\ WalkOff
    /\ MainOff
    /\ DescendOff

\* saveCache(path, projects)
CacheSave ==
    /\ cpc = "save"
    /\ cfile' = saveCache(cfile, cprojects, cnil).file
    /\ csave' = saveCache(cfile, cprojects, cnil).err
    /\ cpc' = "load"
    /\ UNCHANGED <<cprojects, cnil, cload>>
    /\ UNCHANGED <<fuzzyVars, descendVars, filterVars, walkVars, mainVars>>

\* loadCache(path)
CacheLoad ==
    /\ cpc = "load"
    /\ cload' = loadCache(cfile)
    /\ cpc' = "done"
    /\ UNCHANGED <<cfile, cprojects, cnil, csave>>
    /\ UNCHANGED <<fuzzyVars, descendVars, filterVars, walkVars, mainVars>>

CacheNext ==
    \/ CacheSave
    \/ CacheLoad

SpecCache == CacheInit /\ [][CacheNext]_vars

(***************************************************************************)
(* One turn of walkFast's loop on a directory whose entries come in any    *)
(* order and number: the loop over the entries with findProjects' visitor, *)
(* then the decision.  The visitor turns node_modules into StopAnyway, a   *)
(* marker into Stop, go.work into ContinueAnyway and any other name into   *)
(* Conitinue, so the entries range over every sequence of signals.         *)
(***************************************************************************)
EntryPool ==
    {[name |-> n, isDir |-> n \in DirEntryNames] :
        n \in {".git", "go.mod", "go.work", "node_modules", "a"}}

DescendInit ==
    /\ dentries \in SeqUpTo(EntryPool, MaxEntries)
    /\ dgo = <<>>
    /\ dpc = "ready"
    /\ FuzzyOff
    /\ FilterOff
    /\ WalkOff
    /\ MainOff
    /\ CacheOff

\* main.go:62-84 on the directory Root
DescendDecide ==
    /\ dpc = "ready"
    /\ dgo' = <<goDeep(visitEntries(Root, dentries,
                          [continueAnyway |-> FALSE, continue_ |-> FALSE,
                           stopAnyway |-> FALSE, stop_ |-> FALSE,
                           projects |-> <<>>, seen |-> {}]))>>
    /\ dpc' = "done"
    /\ UNCHANGED dentries
    /\ UNCHANGED <<fuzzyVars, filterVars, walkVars, mainVars, cacheVars>>

DescendNext == DescendDecide

SpecDescend == DescendInit /\ [][DescendNext]_vars

(***************************************************************************)
(* Reference notions the properties are stated with.                       *)
(***************************************************************************)
\* q is a subsequence of t: q's characters occur in t in the same order, gaps allowed
IsSubseq(q, t) ==
    \E f \in [1..Len(q) -> 1..Len(t)] :
        /\ \A i, j \in 1..Len(q) : i < j => f[i] < f[j]
        /\ \A i \in 1..Len(q) : q[i] = t[f[i]]

RECURSIVE TailPos(_, _, _)
\* the position in t of the occurrence of q[k] nearest the tail that lies before the
\* position taken by q[k+1]; defined when q is a subsequence of t
TailPos(q, t, k) ==
    LET bound == IF k = Len(q) THEN Len(t) + 1 ELSE TailPos(q, t, k + 1)
    IN  SetMax({i \in 1..(bound - 1) : t[i] = q[k]})

RECURSIVE SumGaps(_, _, _, _)
\* the sum over k..Len(q)-1 of min(distance between consecutive matches - adj, 3)
SumGaps(q, t, k, adj) ==
    IF k >= Len(q)
    THEN 0
    ELSE Min(TailPos(q, t, k + 1) - TailPos(q, t, k) - adj, 3) + SumGaps(q, t, k + 1, adj)

Contiguous(q, t) ==
    \A k \in 1..(Len(q) - 1) : TailPos(q, t, k + 1) = TailPos(q, t, k) + 1

\* the final path segment: what follows the last "/"
Leaf(p) ==
    LET at == {i \in 1..Len(p) : p[i] = "/"}
    IN  IF at = {} THEN p ELSE SubSeq(p, SetMax(at) + 1, Len(p))

Count(s, x) == Cardinality({i \in 1..Len(s) : s[i] = x})

Range(s) == {s[i] : i \in 1..Len(s)}

(***************************************************************************)
(* What the walk properties are stated with.  A directory is visited when  *)
(* the walk pops it; visitLog holds the visits in order, each with the     *)
(* index of the base directory whose walk made it.                         *)
(***************************************************************************)
\* s lies below d, at any depth
IsUnder(s, d) ==
    /\ Len(s) > Len(d)
    /\ SubSeq(s, 1, Len(d)) = d
    /\ s[Len(d) + 1] = "/"

\* the subdirectories of d: its entries that are directories
SubdirsOf(d) == {Join(d, n) : n \in NamesIn(fs, d) \cap DirEntryNames}

HasMarker(d) == NamesIn(fs, d) \cap projectMarkers # {}
HasOverride(d) == "go.work" \in NamesIn(fs, d)
HasSkip(d) == NamesIn(fs, d) \cap skipDirs # {}

\* the walk of base b reaches d from above or starts at it: b is not inside d
WalkFromOutside(b, d) == ~IsUnder(baseDirs[b], d)

\* the walk of base b has popped s
PoppedIn(b, s) ==
    \E j \in 1..Len(visitLog) : visitLog[j].base = b /\ visitLog[j].dir = s

\* the walk of base b has not ended and s waits on its stack
Pending(b, s) == baseIdx = b /\ s \in Range(stack)

(***************************************************************************)
(* C1: when a visited directory D has an entry named in the skip set       *)
(* (node_modules), the walk that visited D visits nothing below D,         *)
(* whatever else D holds, a marker or go.work included.  (Only the walk    *)
(* of a base directory that itself lies inside D reads below D.)           *)
(***************************************************************************)
C1_SkipPrunesSubtree ==
    \A i, j \in 1..Len(visitLog) :
        LET D == visitLog[i].dir
        IN  (visitLog[i].read /\ HasSkip(D) /\ WalkFromOutside(visitLog[j].base, D))
                => ~IsUnder(visitLog[j].dir, D)

C1_Witness ==
    /\ wpc = "returned"
    /\ baseDirs = <<Root>>
    /\ fs[Root] = [kind |-> "dir", names |-> {".git", "go.work", "node_modules"}]
    /\ fs[DirA].kind = "dir"
    /\ fs[DirB].kind = "dir"
    /\ Len(visitLog) = 1
    /\ visitLog[1].dir = Root /\ visitLog[1].read

(***************************************************************************)
(* C2: a visited directory D with a marker entry and no go.work entry is   *)
(* in the project list from the visit on, hence in the list findProjects   *)
(* returns, and the walk that visited D visits nothing below D.            *)
(***************************************************************************)
C2_MarkerRecordsAndStops ==
    \A i \in 1..Len(visitLog) :
        LET D == visitLog[i].dir
        IN  (visitLog[i].read /\ HasMarker(D) /\ ~HasOverride(D)) =>
                /\ Count(projects, D) = 1
                /\ \A j \in 1..Len(visitLog) :
                       WalkFromOutside(visitLog[j].base, D) => ~IsUnder(visitLog[j].dir, D)

C2_Witness ==
    /\ wpc = "returned"
    /\ baseDirs = <<Root>>
    /\ fs[Root] = [kind |-> "dir", names |-> {"go.mod"}]
    /\ fs[DirA] = [kind |-> "dir", names |-> {".git"}]
    /\ fs[DirB].kind = "dir"
    /\ projects = <<Root>>
    /\ Len(visitLog) = 1

(***************************************************************************)
(* C3 as stated: a visited directory D with a marker entry and a go.work   *)
(* entry is recorded as a project and every subdirectory of D is visited   *)
(* by the walk that visited D, whatever else D holds.                      *)
(***************************************************************************)
C3_OverrideAlwaysDescends ==
    \A i \in 1..Len(visitLog) :
        LET D == visitLog[i].dir
            b == visitLog[i].base
        IN  (visitLog[i].read /\ HasMarker(D) /\ HasOverride(D)) =>
                /\ Count(projects, D) = 1
                /\ \A sub \in SubdirsOf(D) : PoppedIn(b, sub) \/ Pending(b, sub)

(***************************************************************************)
(* C3 amended: a visited directory D with a marker entry, a go.work entry  *)
(* and no skip-named entry (node_modules) is recorded as a project and     *)
(* every subdirectory of D is visited by the walk that visited D: while    *)
(* that walk runs each one is popped or waits on the stack, and when it    *)
(* has ended each one has been popped, and read when it can be read.       *)
(***************************************************************************)
C3_OverrideDescendsUnlessSkip ==
    \A i \in 1..Len(visitLog) :
        LET D == visitLog[i].dir
            b == visitLog[i].base
        IN  (visitLog[i].read /\ HasMarker(D) /\ HasOverride(D) /\ ~HasSkip(D)) =>
                /\ Count(projects, D) = 1
                /\ visitLog[i].goDeep
                /\ \A sub \in SubdirsOf(D) :
                       \/ Pending(b, sub)
                       \/ \E j \in (i + 1)..Len(visitLog) :
                              /\ visitLog[j].base = b
                              /\ visitLog[j].dir = sub
                              /\ visitLog[j].read = Readable(fs, sub)

C3_Witness ==
    /\ wpc = "returned"
    /\ baseDirs = <<Root>>
    /\ fs[Root] = [kind |-> "dir", names |-> {".git", "go.work"}]
    /\ fs[DirA] = [kind |-> "dir", names |-> {"go.mod", ".git"}]
    /\ fs[DirAA].kind = "dir"
    /\ fs[DirB].kind = "unreadable"
    /\ projects = <<Root, DirA>>
    /\ [k \in 1..Len(visitLog) |-> visitLog[k].dir] = <<Root, Join(Root, ".git"), DirA, DirB>>

(***************************************************************************)
(* C4: fuzzyMatch reports a match exactly when the lower-cased query is a  *)
(* subsequence of the lower-cased candidate, the empty query included;     *)
(* "br" matches "library" and "xq" does not.                               *)
(***************************************************************************)
C4_MatchIffSubsequence ==
    fpc = "done" =>
        /\ fres[1] <=> IsSubseq(ToLower(fq), ToLower(ft))
        /\ (fq = queryBr /\ ft = library) => fres[1]
        /\ (fq = queryXq /\ ft = library) => ~fres[1]

C4_Witness ==
    /\ fpc = "done"
    /\ fq = <<"A", "b">>
    /\ ft = <<"b", "A", "a", "b", "a">>
    /\ fres[1]

(***************************************************************************)
(* C5 as stated: the score of a successful match is the sum of             *)
(* min(distance, 3) over the matched characters after the first, where     *)
(* matches on adjacent positions are at distance 0; a contiguous run       *)
(* scores 0; the score is at most 3*(len(query)-1); a failed match         *)
(* scores 0.                                                               *)
(***************************************************************************)
C5_AdjacentScoresZero ==
    fpc = "done" =>
        LET q == ToLower(fq)
            t == ToLower(ft)
        IN  /\ fres[1] =>
                /\ fres[2] = SumGaps(q, t, 1, 1)
                /\ Contiguous(q, t) => fres[2] = 0
                /\ Len(q) > 0 => fres[2] <= 3 * (Len(q) - 1)
            /\ ~fres[1] => fres[2] = 0

(***************************************************************************)
(* C5 amended: the distance between two matches is the difference of       *)
(* their candidate positions, so adjacent matches are at distance 1 and    *)
(* contribute 1; the score of a successful match is the sum of             *)
(* min(distance, 3) over the matched characters after the first, a         *)
(* contiguous run scores len(query)-1, the score lies between              *)
(* len(query)-1 and 3*(len(query)-1), and a failed match scores 0.         *)
(***************************************************************************)
C5_ScoreIsCappedGapSum ==
    fpc = "done" =>
        LET q == ToLower(fq)
            t == ToLower(ft)
        IN  /\ fres[1] =>
                /\ fres[2] = SumGaps(q, t, 1, 0)
                /\ Contiguous(q, t) /\ Len(q) > 0 => fres[2] = Len(q) - 1
                /\ Len(q) > 0 => fres[2] >= Len(q) - 1 /\ fres[2] <= 3 * (Len(q) - 1)
                /\ Len(q) = 0 => fres[2] = 0
            /\ ~fres[1] => fres[2] = 0

C5_Witness ==
    /\ fpc = "done"
    /\ fres = <<TRUE, 3>>
    /\ Len(fq) = 2
    /\ TailPos(ToLower(fq), ToLower(ft), 2) - TailPos(ToLower(fq), ToLower(ft), 1) = 4

(***************************************************************************)
(* C6 as stated: for a non-empty query a project is returned exactly when  *)
(* the query matches its final path segment, as often as it occurs in the  *)
(* input.                                                                  *)
(***************************************************************************)
C6_LeafDecides ==
    (ppc = "done" /\ pquery # <<>>) =>
        \A p \in PathPool \cup Range(pout.result) :
            Count(pout.result, p) =
                IF IsSubseq(ToLower(pquery), ToLower(Leaf(p)))
                THEN Count(pprojects, p)
                ELSE 0

(***************************************************************************)
(* C6 amended: for a non-empty query a project is returned exactly when    *)
(* the query matches its whole path (the leaf-only branch is the dead      *)
(* one), so a project whose leaf does not match is still returned when     *)
(* the query is a subsequence of the full path; the result holds no        *)
(* project that is not in the input and none more often than the input.    *)
(***************************************************************************)
C6_WholePathDecides ==
    (ppc = "done" /\ pquery # <<>>) =>
        \A p \in PathPool \cup Range(pout.result) :
            Count(pout.result, p) =
                IF IsSubseq(ToLower(pquery), ToLower(p))
                THEN Count(pprojects, p)
                ELSE 0

C6_Witness ==
    /\ ppc = "done"
    /\ pquery = <<"a">>
    /\ pprojects = <<pathFoo, pathOfOof, pathFoo>>
    /\ pout.result = <<pathFoo, pathFoo>>
    /\ ~IsSubseq(ToLower(pquery), ToLower(Leaf(pathFoo)))

(***************************************************************************)
(* C7: for a non-empty query, a project whose final path segment matches   *)
(* the query is reported, and with the score fuzzyMatch gives for that     *)
(* final segment.                                                          *)
(***************************************************************************)
C7_LeafScoreReported ==
    (ppc = "done" /\ pquery # <<>>) =>
        \A p \in Range(pprojects) :
            fuzzyMatch(pquery, Leaf(p))[1] =>
                /\ \E j \in 1..Len(pout.matches) : pout.matches[j].project = p
                /\ \A j \in 1..Len(pout.matches) :
                       pout.matches[j].project = p =>
                           pout.matches[j].score = fuzzyMatch(pquery, Leaf(p))[2]

C7_Witness ==
    /\ ppc = "done"
    /\ pquery = <<"o", "f">>
    /\ pprojects = <<pathOfOof>>
    /\ fuzzyMatch(pquery, Leaf(pathOfOof)) = <<TRUE, 1>>
    /\ pout.matches = <<[project |-> pathOfOof, score |-> 1]>>

(***************************************************************************)
(* C8: with the empty query filterProjects returns every input project in  *)
(* the input order and no scored matches.                                  *)
(***************************************************************************)
C8_EmptyQueryReturnsAll ==
    (ppc = "done" /\ pquery = <<>>) =>
        /\ pout.result = pprojects
        /\ pout.matches = <<>>

C8_Witness ==
    /\ ppc = "done"
    /\ pquery = <<>>
    /\ pprojects = <<pathFoobar, pathBar, pathFoobar>>
    /\ pout.result = pprojects

(***************************************************************************)
(* C9: for a non-empty query the returned paths and scored matches have    *)
(* the same length, the i-th path is the project of the i-th match, and    *)
(* the scores never decrease along the list.                               *)
(***************************************************************************)
C9_AscendingScores ==
    (ppc = "done" /\ pquery # <<>>) =>
        /\ Len(pout.result) = Len(pout.matches)
        /\ \A i \in 1..Len(pout.matches) : pout.result[i] = pout.matches[i].project
        /\ \A i, j \in 1..Len(pout.matches) :
               i < j => pout.matches[i].score <= pout.matches[j].score

C9_Witness ==
    /\ ppc = "done"
    /\ pquery = <<"f", "o">>
    /\ pprojects = <<pathFoSlashO, pathFoo>>
    /\ pout.result = <<pathFoo, pathFoSlashO>>
    /\ pout.matches[1].score < pout.matches[2].score

(***************************************************************************)
(* C10: in a session started from a non-empty cached list (find runs in    *)
(* the background), every filterProjects call of the session operates on   *)
(* the list loaded from the cache at startup: the rescan does not change   *)
(* the list the session filters and displays.  Stated for the calls that   *)
(* read the slice header whole, which leaves the torn reads of the         *)
(* unsynchronised assignment aside.                                        *)
(***************************************************************************)
C10_SessionFiltersCachedList ==
    (findBg /\ mpc = "session" /\ filterArg # <<>> /\ filterArg[1].whole)
        => filterArg[1].list = loaded

(***************************************************************************)
(* C11: in a run that loaded a non-empty list from the cache and rescans   *)
(* in the background, the cache file holds at every moment a complete      *)
(* document: the previous one (the list the run loaded) or, once the       *)
(* rescan has saved, the new one (the complete rescanned list); never an   *)
(* empty or partial one, whether the process ends during the save or       *)
(* another process reads during it.  A rescan abandoned by the end of the  *)
(* process has not saved, so it leaves the previous document.              *)
(***************************************************************************)
C11_CacheAlwaysComplete ==
    findBg =>
        \/ loadCache(cacheFile) = [projects |-> loaded, err |-> FALSE]
        \/ /\ findpc = "done"
           /\ wpc = "returned"
           /\ loadCache(cacheFile) = [projects |-> projects, err |-> FALSE]

(***************************************************************************)
(* C12: the startup policy.  Loading never ends the process: a cache file  *)
(* that is missing, unreadable or malformed loads as the empty list.  The  *)
(* rescan runs in the background exactly when the loaded list is not       *)
(* empty.  When the loaded list is empty the rescan has run to its end     *)
(* before the test for no projects, hence before anything is displayed     *)
(* and before the process ends.  When it is not empty main never waits:    *)
(* the test can be made and the first display drawn wherever the rescan    *)
(* stands.                                                                 *)
(***************************************************************************)
C12_StartupPolicy ==
    /\ (mpc = "decide" /\ loadCache(cacheFile).err) => loaded = <<>>
    /\ mpc \notin {"load", "decide"} => findBg = (loaded # <<>>)
    /\ (~findBg /\ mpc \notin {"load", "decide", "wait"}) =>
           /\ findpc = "done"
           /\ wpc = "returned"
    /\ (~findBg /\ firstShown # <<>>) => findpc = "done"
    /\ mpc = "wait" => (~findBg /\ firstShown = <<>> /\ output = "none")
    /\ (findBg /\ mpc = "check") => ENABLED (MainBuildUI \/ MainNoProjects)
    /\ (findBg /\ mpc = "ui") => ENABLED (MainFirstUpdate \/ ReadFault)

\* a cache file that cannot be opened: the rescan ran inline, then the session started
C12_Witness ==
    /\ cacheFile.kind = "nodir"
    /\ loaded = <<>>
    /\ ~findBg
    /\ findpc = "done"
    /\ mpc = "session"
    /\ firstShown = <<projects>>
    /\ projects # <<>>

\* a cached list: the session runs while the rescan is still walking
C12_WitnessBackground ==
    /\ findBg
    /\ loaded # <<>>
    /\ mpc = "session"
    /\ findpc = "scan"
    /\ wpc = "walk"

(***************************************************************************)
(* C13: when saveCache(path, P) has succeeded and loadCache(path) follows  *)
(* with no write in between, loadCache returns no error and a list equal   *)
(* to P, the same strings in the same order, for every list P of path      *)
(* strings, the empty list included.                                       *)
(***************************************************************************)
C13_SaveThenLoadReturnsList ==
    (cpc = "done" /\ ~csave) =>
        /\ ~cload.err
        /\ cload.projects = cprojects

(***************************************************************************)
(* C14: the list findProjects builds, and so the list it returns, never    *)
(* holds a path twice: a directory with several marker entries is          *)
(* recorded once, and so is a directory reached from two base directories, *)
(* the same one given twice or one lying inside the other.                 *)
(***************************************************************************)
C14_NoDuplicateProjects ==
    /\ \A i, j \in 1..Len(projects) : projects[i] = projects[j] => i = j
    /\ Range(projects) = seen

\* DirA holds two markers and is read by the walk of Root and by the walk of DirA
C14_Witness ==
    /\ wpc = "returned"
    /\ baseDirs = <<Root, DirA>>
    /\ fs[Root] = [kind |-> "dir", names |-> {".git", "go.work"}]
    /\ fs[DirA] = [kind |-> "dir", names |-> {"go.mod", ".git"}]
    /\ Cardinality({k \in 1..Len(visitLog) : visitLog[k].dir = DirA /\ visitLog[k].read}) = 2
    /\ projects = <<Root, DirA>>

(***************************************************************************)
(* C15: the session is started only with a non-empty project list.  When   *)
(* the inline scan has found no project the process reports "No projects   *)
(* found." and ends with nothing displayed; a process that reported it     *)
(* never displayed anything; and the first displayed list is never empty,  *)
(* wherever the background rescan stands around startup.                   *)
(***************************************************************************)
C15_FirstDisplayNonEmpty ==
    /\ (~findBg /\ findpc = "done" /\ projects = <<>>) =>
           /\ mpc \in {"wait", "check", "exited"}
           /\ mpc = "exited" => output = "No projects found."
    /\ output = "No projects found." => firstShown = <<>>
    /\ firstShown # <<>> => firstShown[1] # <<>>

\* the signal findProjects' visitor returns for an entry of this name
SignalOf(name) == visit(Root, name, name \in DirEntryNames, <<>>, {}).signal

\* the set of signals the entries of a directory produced
SignalsOf(entries) == {SignalOf(entries[i].name) : i \in 1..Len(entries)}

(***************************************************************************)
(* C16: the decision to descend depends only on the set of signals the     *)
(* entries produced, by a fixed precedence: never when some entry          *)
(* signalled StopAnyway; otherwise always when some entry signalled        *)
(* ContinueAnyway; otherwise exactly when some entry signalled Conitinue   *)
(* and none signalled Stop.  So the order of the entries does not matter,  *)
(* and a directory with no entries is not descended.                       *)
(***************************************************************************)
C16_DescendByPrecedence ==
    dpc = "done" =>
        LET S == SignalsOf(dentries)
        IN  dgo[1] = IF StopAnyway \in S THEN FALSE
                     ELSE IF ContinueAnyway \in S THEN TRUE
                     ELSE Conitinue \in S /\ Stop \notin S

\* entries in an order os.ReadDir does not produce: an override listed before a marker
C16_Witness ==
    /\ dpc = "done"
    /\ [i \in 1..Len(dentries) |-> dentries[i].name] = <<"a", "go.work", ".git", "go.mod">>
    /\ dgo = <<TRUE>>

(***************************************************************************)
(* The order a pre-order depth-first walk visits in, stated on the file    *)
(* system alone.  A directory is descended when it can be read and its     *)
(* names decide so by the precedence of C16; its subdirectories then       *)
(* follow in the order os.ReadDir lists them, each with its whole subtree. *)
(***************************************************************************)
Descends(d) ==
    /\ Readable(fs, d)
    /\ ~HasSkip(d)
    /\ \/ HasOverride(d)
       \/ /\ ~HasMarker(d)
          /\ NamesIn(fs, d) \ (projectMarkers \cup skipDirs \cup {"go.work"}) # {}

\* the subdirectories of d in the order os.ReadDir lists them
SubdirSeq(d) ==
    IF Readable(fs, d)
    THEN LET dirEntries == SelectSeq(ReadDir(fs, d), LAMBDA e : e.isDir)
         IN  [i \in 1..Len(dirEntries) |-> Join(d, dirEntries[i].name)]
    ELSE <<>>

RECURSIVE Preorder(_)
RECURSIVE PreorderAll(_)
Preorder(d) == <<d>> \o (IF Descends(d) THEN PreorderAll(SubdirSeq(d)) ELSE <<>>)
PreorderAll(ds) == IF ds = <<>> THEN <<>> ELSE Preorder(Head(ds)) \o PreorderAll(Tail(ds))

IsPrefix(s, t) == Len(s) <= Len(t) /\ s = SubSeq(t, 1, Len(s))

RECURSIVE FirstOccurrences(_)
\* s without the later occurrences of its elements
FirstOccurrences(s) ==
    IF s = <<>>
    THEN <<>>
    ELSE LET init == SubSeq(s, 1, Len(s) - 1)
             last == s[Len(s)]
         IN  IF last \in Range(init)
             THEN FirstOccurrences(init)
             ELSE Append(FirstOccurrences(init), last)

\* the directories the walk of base b has popped, in order
VisitsOf(b) ==
    LET mine == SelectSeq(visitLog, LAMBDA r : r.base = b)
    IN  [i \in 1..Len(mine) |-> mine[i].dir]

RECURSIVE PreorderOfBases(_)
PreorderOfBases(b) ==
    IF b = 0 THEN <<>> ELSE PreorderOfBases(b - 1) \o Preorder(baseDirs[b])

\* the projects of a full scan, from the file system and the base directories alone
ExpectedProjects ==
    FirstOccurrences(SelectSeq(PreorderOfBases(Len(baseDirs)),
                               LAMBDA d : Readable(fs, d) /\ HasMarker(d)))

(***************************************************************************)
(* C17: each walk visits in pre-order depth-first order, the               *)
(* subdirectories of a descended directory in enumeration order and the    *)
(* whole subtree of an earlier sibling before a later sibling: what the    *)
(* walk under way has popped is at every moment a prefix of that order,    *)
(* and all of it when its stack is empty.  (A walk that has ended pops     *)
(* nothing more.)  The project list is in visit order: the                 *)
(* visited project directories in the order of their first visit.  So      *)
(* the list a full scan returns is fixed by the file system and the base   *)
(* directories: two scans of an unchanged file system return the same      *)
(* ordered list.                                                           *)
(***************************************************************************)
C17_PreorderVisitOrder ==
    /\ baseIdx > 0 =>
           /\ IsPrefix(VisitsOf(baseIdx), Preorder(baseDirs[baseIdx]))
           /\ stack = <<>> => VisitsOf(baseIdx) = Preorder(baseDirs[baseIdx])
    /\ LET found == SelectSeq(visitLog, LAMBDA r : r.read /\ HasMarker(r.dir))
       IN  projects = FirstOccurrences([i \in 1..Len(found) |-> found[i].dir])
    /\ wpc = "returned" => projects = ExpectedProjects

\* the subtree of a comes before its later sibling b, and the projects follow the visits
C17_Witness ==
    /\ wpc = "returned"
    /\ baseDirs = <<Root>>
    /\ VisitsOf(1) = <<Root, DirA, DirAA, DirB>>
    /\ projects = <<DirAA, DirB>>

(***************************************************************************)
(* C18, the part about what is written and when: the cache is written at   *)
(* most once in a run, the save starts only after the traversal of all     *)
(* base directories has ended, and the document written holds the          *)
(* complete result of that traversal.                                      *)
(***************************************************************************)
C18_WriteAfterFullScan ==
    /\ cacheWrites <= 1
    /\ findpc \in {"save", "write", "done"} => wpc = "returned"
    /\ cacheWrites = 1 =>
           /\ findpc = "done"
           /\ projects = ExpectedProjects
           /\ loadCache(cacheFile) = [projects |-> projects, err |-> FALSE]

(***************************************************************************)
(* C18: once a rescan is started it writes the cache exactly once, after   *)
(* the traversal of all base directories has ended and with the complete   *)
(* result of it: at most once and never a partial result in any            *)
(* execution, and, when the rescan is scheduled fairly and the process     *)
(* does not end first, the write eventually happens.                       *)
(***************************************************************************)
C18_RescanWritesOnce ==
    /\ [](C18_WriteAfterFullScan)
    /\ (findpc = "scan") ~> (cacheWrites = 1 \/ findpc = "killed")

RECURSIVE ReadablePreorder(_)
RECURSIVE ReadablePreorderAll(_)
\* the pre-order walk from d that leaves the unreadable directories out
ReadablePreorder(d) ==
    IF ~Readable(fs, d)
    THEN <<>>
    ELSE <<d>> \o (IF Descends(d) THEN ReadablePreorderAll(SubdirSeq(d)) ELSE <<>>)
ReadablePreorderAll(ds) ==
    IF ds = <<>>
    THEN <<>>
    ELSE ReadablePreorder(Head(ds)) \o ReadablePreorderAll(Tail(ds))

\* the directories the walk of base b has read, in order
ReadsOf(b) ==
    LET mine == SelectSeq(visitLog, LAMBDA r : r.base = b /\ r.read)
    IN  [i \in 1..Len(mine) |-> mine[i].dir]

(***************************************************************************)
(* C19: a popped directory D that cannot be read is left at once: no       *)
(* entry of it is visited, so D is never recorded, and no child of it is   *)
(* pushed, so the walk neither visits nor holds anything below D.  The     *)
(* walk goes on with the rest of the stack: the directories it reads are   *)
(* those of the pre-order walk with the unreadable ones left out, in that  *)
(* order, all of them when its stack is empty.  No failure ends the walk:  *)
(* findProjects is walking or has returned its list.                       *)
(***************************************************************************)
C19_UnreadableSkipped ==
    /\ \A i \in 1..Len(visitLog) :
           LET D == visitLog[i].dir
               b == visitLog[i].base
           IN  ~Readable(fs, D) =>
                   /\ ~visitLog[i].read
                   /\ ~visitLog[i].goDeep
                   /\ D \notin seen
                   /\ D \notin Range(projects)
                   /\ \A j \in 1..Len(visitLog) :
                          visitLog[j].base = b => ~IsUnder(visitLog[j].dir, D)
                   /\ b = baseIdx => \A k \in 1..Len(stack) : ~IsUnder(stack[k], D)
    /\ baseIdx > 0 =>
           /\ IsPrefix(ReadsOf(baseIdx), ReadablePreorder(baseDirs[baseIdx]))
           /\ stack = <<>> => ReadsOf(baseIdx) = ReadablePreorder(baseDirs[baseIdx])
    /\ wpc \in {"walk", "returned"}

\* a is unreadable and its sibling b, popped after it, is read and recorded
C19_Witness ==
    /\ wpc = "returned"
    /\ baseDirs = <<Root>>
    /\ fs[DirA].kind = "unreadable"
    /\ fs[DirB] = [kind |-> "dir", names |-> {".git"}]
    /\ VisitsOf(1) = <<Root, DirA, DirB>>
    /\ ReadsOf(1) = <<Root, DirB>>
    /\ projects = <<DirB>>

(***************************************************************************)
(* C20, the part that holds at every moment: a walk pops a directory at    *)
(* most once; a popped directory other than the walk's root was pushed by  *)
(* its parent, which the same walk popped and read before and which        *)
(* decided to descend; and what is pushed is a directory entry, never      *)
(* another entry.                                                          *)
(***************************************************************************)
C20_PoppedOnceBelowDescended ==
    /\ \A i, j \in 1..Len(visitLog) :
           (visitLog[i].base = visitLog[j].base /\ visitLog[i].dir = visitLog[j].dir)
               => i = j
    /\ \A j \in 1..Len(visitLog) :
           visitLog[j].dir # baseDirs[visitLog[j].base] =>
               /\ Leaf(visitLog[j].dir)[1] \in DirEntryNames
               /\ \E i \in 1..(j - 1) :
                      /\ visitLog[i].base = visitLog[j].base
                      /\ visitLog[i].dir = Parent(visitLog[j].dir)
                      /\ visitLog[i].read
                      /\ visitLog[i].goDeep
    /\ \A k \in 1..Len(stack) :
           stack[k] # baseDirs[baseIdx] =>
               /\ Leaf(stack[k])[1] \in DirEntryNames
               /\ \E i \in 1..Len(visitLog) :
                      /\ visitLog[i].base = baseIdx
                      /\ visitLog[i].dir = Parent(stack[k])
                      /\ visitLog[i].read
                      /\ visitLog[i].goDeep

\* every path a walk can pop on a file system of the model: a base directory, or a
\* directory entry of a directory of the tree
TreePaths == BaseChoices \cup {Join(d, n) : d \in Dirs, n \in DirEntryNames}

\* a bound on the loop turns findProjects still has to take: one per path the current
\* walk has not popped, a whole tree for each walk not begun, and the return
StepsLeft ==
    (IF wpc = "walk" THEN 1 ELSE 0)
        + (Len(baseDirs) - baseIdx) * (Cardinality(TreePaths) + 1)
        + (Cardinality(TreePaths) - Len(VisitsOf(baseIdx)))

(***************************************************************************)
(* C20: on a finite directory tree every walk terminates: each turn of     *)
(* the loop lowers a bound on the turns left, which is a natural number    *)
(* fixed by the size of the tree, so the stack becomes empty for each      *)
(* base directory and findProjects returns with the stack empty.  Each     *)
(* directory is popped and read at most once in a walk, a directory other  *)
(* than the root is visited only when its parent was visited and decided   *)
(* to descend, and entries that are not directories are never pushed.      *)
(***************************************************************************)
C20_WalkTerminates ==
    /\ [](C20_PoppedOnceBelowDescended)
    /\ [](StepsLeft >= 0)
    /\ [](wpc = "returned" => (stack = <<>> /\ baseIdx = Len(baseDirs)))
    /\ [][StepsLeft' < StepsLeft]_vars

\* a descended directory holding go.work, a file, next to .git and two subdirectories
C20_Witness ==
    /\ wpc = "returned"
    /\ baseDirs = <<Root>>
    /\ fs[Root] = [kind |-> "dir", names |-> {".git", "go.work"}]
    /\ fs[DirA] = [kind |-> "dir", names |-> {}]
    /\ fs[DirAA] = [kind |-> "dir", names |-> {"go.mod"}]
    /\ VisitsOf(1) = <<Root, Join(Root, ".git"), DirA, DirAA, DirB>>
    /\ stack = <<>>

====
